---- MODULE Spec2Model ----
(***************************************************************************)
(* A model of the image generation front end: the Express server           *)
(* (server.js) and the two Netlify functions (generate-image.js,           *)
(* manipulate-image.js).  One behaviour is one HTTP request to one of the  *)
(* four handlers: request parsing and validation, the single call of the   *)
(* upstream model client, the pass of processAIResponse over the chunk     *)
(* stream, and the response.                                               *)
(***************************************************************************)
EXTENDS Integers, Sequences, FiniteSets, TLC

\* Longest chunk stream the upstream delivers in one request.
MaxChunks == 3
\* Date.now() at the start of the request, and how many milliseconds it may
\* advance while the request is processed.
Epoch == 9
MaxTicks == 1

(***************************************************************************)
(* JavaScript values.  An optional property is Absent (undefined) or       *)
(* Some(v); a string is truthy when it is present and not empty.           *)
(***************************************************************************)
Range(seq) == {seq[i] : i \in 1..Len(seq)}

Absent == [has |-> FALSE]
Some(v) == [has |-> TRUE, v |-> v]
Truthy(s) == s.has /\ s.v # ""

(***************************************************************************)
(* Response chunks of the upstream client, as processAIResponse reads      *)
(* them: chunk.candidates[0].content.parts[0].inlineData and chunk.text.   *)
(***************************************************************************)
InlinePart(m) == [inlineData |-> Some([mimeType |-> m, data |-> Some("QUJD")])]
PlainPart == [inlineData |-> Absent]
Candidate(ps) == [content |-> Some([parts |-> Some(ps)])]
Chunk(cs, t) == [candidates |-> cs, text |-> t]

NoCandidates == Absent
EmptyCandidates == Some(<< >>)
NoContent == Some(<<[content |-> Absent]>>)
NoParts == Some(<<[content |-> Some([parts |-> Absent])]>>)
EmptyParts == Some(<<Candidate(<< >>)>>)
TextOnly == Some(<<Candidate(<<PlainPart>>)>>)
Inline(m) == Some(<<Candidate(<<InlinePart(m)>>)>>)
InlineSecondPart == Some(<<Candidate(<<PlainPart, InlinePart(Some("image/png"))>>)>>)
InlineSecondCandidate == Some(<<Candidate(<<PlainPart>>), Candidate(<<InlinePart(Some("image/png"))>>)>>)

ChunkSet ==
  { Chunk(NoCandidates, Some("a")),
    Chunk(EmptyCandidates, Absent),
    Chunk(NoContent, Absent),
    Chunk(NoParts, Absent),
    Chunk(EmptyParts, Some("b")),
    Chunk(TextOnly, Some("a")),
    Chunk(TextOnly, Some("b")),
    Chunk(TextOnly, Some("")),
    Chunk(Inline(Absent), Absent),
    Chunk(Inline(Some("image/png")), Some("a")),
    Chunk(Inline(Some("image/jpeg")), Absent),
    Chunk(Inline(Some("application/x-unknown")), Absent),
    Chunk(InlineSecondPart, Some("a")),
    Chunk(InlineSecondCandidate, Absent) }

(***************************************************************************)
(* Strings built by template literals are sequences of tokens: a literal   *)
(* piece or one decimal digit each.                                        *)
(***************************************************************************)
DigitChars == <<"0", "1", "2", "3", "4", "5", "6", "7", "8", "9">>

RECURSIVE Digits(_)
Digits(n) == IF n < 10 THEN <<DigitChars[n + 1]>>
             ELSE Digits(n \div 10) \o <<DigitChars[(n % 10) + 1]>>

\* mime.getExtension: the extension registered for a media type, null
\* (Absent) for a type the registry does not know.
getExtension(type) ==
  CASE type = "image/png" -> Some("png")
    [] type = "image/jpeg" -> Some("jpeg")
    [] OTHER -> Absent

\* A value interpolated into a template literal: null prints as "null".
Interpolate(x) == IF x.has THEN x.v ELSE "null"

\* `${baseFileName}_${Date.now()}_${fileIndex++}`
fileName(baseFileName, t, index) ==
  <<baseFileName, "_">> \o Digits(t) \o <<"_">> \o Digits(index)

\* mime.getExtension(inlineData.mimeType || 'image/png')
fileExtension(inlineData) ==
  getExtension(IF Truthy(inlineData.mimeType) THEN inlineData.mimeType.v ELSE "image/png")

\* `${fileName}.${fileExtension}`
fullFileName(baseFileName, t, index, inlineData) ==
  fileName(baseFileName, t, index) \o <<".", Interpolate(fileExtension(inlineData))>>

(***************************************************************************)
(* The tests of processAIResponse's loop body.                             *)
(***************************************************************************)
\* chunk.candidates[0] of an empty array is undefined: reading .content of
\* it raises a TypeError.
GuardRaises(chunk) == chunk.candidates.has /\ Len(chunk.candidates.v) = 0

\* (variant: the test of chunk.candidates itself is left out)
GuardSkipsWithoutCandidatesTest(chunk) ==
  /\ chunk.candidates.has
  /\ Len(chunk.candidates.v) > 0
  /\ \/ ~chunk.candidates.v[1].content.has
     \/ ~chunk.candidates.v[1].content.v.parts.has

\* !chunk.candidates || !chunk.candidates[0].content || !chunk.candidates[0].content.parts
GuardSkips(chunk) ==
  \/ ~chunk.candidates.has
  \/ /\ Len(chunk.candidates.v) > 0
     /\ \/ ~chunk.candidates.v[1].content.has
        \/ ~chunk.candidates.v[1].content.v.parts.has

\* (variant: every part of every candidate is searched for inline data)
AnyInlineData(chunk) ==
  LET found == IF ~chunk.candidates.has THEN {}
               ELSE {d \in UNION {IF c.content.has /\ c.content.v.parts.has
                                   THEN {p.inlineData : p \in Range(c.content.v.parts.v)}
                                   ELSE {} : c \in Range(chunk.candidates.v)} : d.has}
  IN IF found = {} THEN Absent ELSE CHOOSE d \in found : TRUE

\* chunk.candidates?.[0]?.content?.parts?.[0]?.inlineData
FirstInlineData(chunk) ==
  IF /\ chunk.candidates.has
     /\ Len(chunk.candidates.v) > 0
     /\ chunk.candidates.v[1].content.has
     /\ chunk.candidates.v[1].content.v.parts.has
     /\ Len(chunk.candidates.v[1].content.v.parts.v) > 0
  THEN chunk.candidates.v[1].content.v.parts.v[1].inlineData
  ELSE Absent


(***************************************************************************)
(* Requests.  A request is what the client sent: method, content type,     *)
(* whether a body arrived and parses, the prompt field and the uploaded    *)
(* file of /manipulate-image.                                              *)
(***************************************************************************)
Deployments == {"server", "netlify"}
Endpoints == {"generate", "manipulate"}
Prompts == {Absent, Some(""), Some("a red circle")}

\* Express routes only POST to the two handlers; a Netlify function sees
\* every method.
Methods(dep) == IF dep = "server" THEN {"POST"} ELSE {"POST", "OPTIONS", "GET"}

GenerateRequests(dep) ==
  { r \in [method : Methods(dep), contentType : {"json"},
           body : {"absent", "malformed", "ok"}, prompt : Prompts, image : {"none"}] :
      /\ (r.body # "ok" => r.prompt = Absent)
      /\ (r.method # "POST" => r.body = "ok" /\ r.prompt = Some("a red circle")) }

ManipulateRequests(dep) ==
  { r \in [method : Methods(dep),
           contentType : IF dep = "server" THEN {"multipart"}
                         ELSE {"absent", "noBoundary", "multipart"},
           body : IF dep = "server" THEN {"ok"} ELSE {"absent", "ok"},
           prompt : Prompts, image : {"none", "image", "notImage", "tooLarge"}] :
      /\ (r.body # "ok" => r.prompt = Absent /\ r.image = "none")
      /\ (r.contentType # "multipart" => r.prompt = Some("a red circle") /\ r.image = "image")
      /\ (r.method # "POST" => r.body = "ok" /\ r.contentType = "multipart"
                                /\ r.prompt = Some("a red circle") /\ r.image = "image") }

Requests(dep, ep) == IF ep = "generate" THEN GenerateRequests(dep) ELSE ManipulateRequests(dep)

\* The uploaded file as multer hands it to the server's handler (req.file).
UploadedFile(image) ==
  CASE image = "image" ->
         Some([originalname |-> "upload", mimetype |-> "image/png", size |-> "small"])
    [] image = "notImage" ->
         Some([originalname |-> "upload", mimetype |-> "text/plain", size |-> "small"])
    [] image = "tooLarge" ->
         Some([originalname |-> "upload", mimetype |-> "image/png", size |-> "large"])
    [] OTHER -> Absent

(***************************************************************************)
(* Errors.  status is the upstream client's reported status, if any.       *)
(***************************************************************************)
Error(name, code, status, message) ==
  [name |-> name, code |-> code, status |-> status, message |-> message]
NoError == Error("none", "", Absent, "")
DestructureTypeError == Error("TypeError", "", Absent, "Cannot destructure property 'prompt' of null")
SplitTypeError == Error("TypeError", "", Absent, "Cannot read properties of null (reading 'split')")
ContentTypeError == Error("TypeError", "", Absent, "Cannot read properties of undefined (reading 'content')")
SyntaxError == Error("SyntaxError", "", Absent, "Unexpected token in JSON")
WriteError == Error("Error", "ENOSPC", Absent, "write failed")
ApiError(status) == Error("ApiError", "", status, "request failed")
StreamError(status) == Error("ApiError", "", status, "stream failed")
UpstreamStatuses == {Absent, Some(400), Some(401), Some(403), Some(429), Some(500)}

VARIABLES
  deployment,   \* "server" (server.js) or "netlify" (netlify/functions)
  endpoint,     \* "generate" or "manipulate"
  request,      \* the request being handled
  apiKey,       \* process.env.GEMINI_API_KEY is set
  pc,           \* position of the handler
  prompt,       \* the handler's local prompt
  imageFile,    \* the handler's local imageFile
  invocations,  \* calls of ai.models.generateContentStream for this request
  history,      \* the chunks the stream has delivered, in arrival order
  results,      \* processAIResponse's results
  fileIndex,    \* processAIResponse's fileIndex
  pending,      \* the image being written by saveBinaryFile (server)
  now,          \* Date.now()
  disk,         \* file names written under public/generated
  thrown,       \* the exception in flight, or the one the catch block got
  responses,    \* the responses sent, in order
  escaped,      \* an exception left the handler uncaught
  passes,       \* the passes of processAIResponse running at once (SpecConcurrent)
  remaining,    \* the number of chunks the upstream stream has yet to deliver
  client        \* the page's GoogleAIImageApp (SpecClient)

vars == <<deployment, endpoint, request, apiKey, pc, prompt, imageFile, invocations,
          history, results, fileIndex, pending, now, disk, thrown, responses, escaped,
          passes, remaining, client>>

handlerVars == <<deployment, endpoint, request, apiKey>>
normalizerVars == <<history, results, fileIndex, pending, now, disk>>

\* One request at a time: no pass runs beside the request's own.
NoPasses == << >>
\* The request does not come from the page.
NoClient == << >>

Init ==
  /\ deployment \in Deployments
  /\ endpoint \in Endpoints
  /\ request \in Requests(deployment, endpoint)
  /\ apiKey \in BOOLEAN
  /\ pc = "entry"
  /\ prompt = Absent
  /\ imageFile = Absent
  /\ invocations = 0
  /\ history = << >>
  /\ results = << >>
  /\ fileIndex = 0
  /\ pending = Absent
  /\ now = Epoch
  /\ disk = {}
  /\ thrown = NoError
  /\ responses = << >>
  /\ escaped = FALSE
  /\ passes = NoPasses
  /\ remaining = 0
  /\ client = NoClient

Response(status, body) == [status |-> status, body |-> body]
Send(status, body) == responses' = Append(responses, Response(status, body))


(***************************************************************************)
(* Exceptions.  Every statement of a handler from its first read of the    *)
(* request to its last response lies inside one try block; the method      *)
(* checks of the Netlify functions and the Express middleware come before  *)
(* it.  An exception raised inside the block reaches its catch clause; one *)
(* raised outside leaves the handler.                                      *)
(***************************************************************************)
\* (variant: the try block opens only after the request has been read)
InTryAfterParsing(position) == position \in {"validate", "invoke", "iterate", "save", "respond"}
InTry(position) == position \in {"parse", "validate", "invoke", "iterate", "save", "respond"}

Throw(err) ==
  /\ thrown' = err
  /\ IF InTry(pc) THEN pc' = "catch" /\ escaped' = escaped
                  ELSE pc' = "done" /\ escaped' = TRUE

\* An exception that unwinds processAIResponse ends its frame: the locals
\* results and fileIndex and the iteration over the stream are gone.
Unwind ==
  /\ history' = << >>
  /\ results' = << >>
  /\ fileIndex' = 0
  /\ pending' = Absent

(***************************************************************************)
(* server.js: express.json() and upload.single('image') run before the     *)
(* handler and pass their errors to the error handling middleware.         *)
(***************************************************************************)
ExpressMiddleware ==
  /\ pc = "entry"
  /\ deployment = "server"
  /\ \/ /\ endpoint = "generate"
        /\ request.body = "malformed"
        /\ thrown' = SyntaxError
        /\ pc' = "errorMiddleware"
     \/ /\ endpoint = "manipulate"
        /\ request.image = "notImage"
        /\ thrown' = Error("Error", "", Absent, "Only image files are allowed!")
        /\ pc' = "errorMiddleware"
     \/ /\ endpoint = "manipulate"
        /\ request.image = "tooLarge"
        /\ thrown' = Error("MulterError", "LIMIT_FILE_SIZE", Absent, "File too large")
        /\ pc' = "errorMiddleware"
     \/ /\ ~(endpoint = "generate" /\ request.body = "malformed")
        /\ ~(endpoint = "manipulate" /\ request.image \in {"notImage", "tooLarge"})
        /\ thrown' = thrown
        /\ pc' = "parse"
  /\ UNCHANGED <<handlerVars, passes, client, remaining, normalizerVars, prompt, imageFile, invocations, responses, escaped>>

ErrorMiddleware ==
  /\ pc = "errorMiddleware"
  /\ IF thrown.name = "MulterError" /\ thrown.code = "LIMIT_FILE_SIZE"
     THEN Send(400, [error |-> "File too large. Maximum size is 10MB."])
     ELSE IF thrown.message = "Only image files are allowed!"
     THEN Send(400, [error |-> "Only image files are allowed!"])
     ELSE Send(500, [error |-> "Internal server error"])
  /\ pc' = "done"
  /\ UNCHANGED <<handlerVars, passes, client, remaining, normalizerVars, prompt, imageFile, invocations, thrown, escaped>>

(***************************************************************************)
(* netlify/functions: the method checks that precede the try block.        *)
(***************************************************************************)
MethodCheck ==
  /\ pc = "entry"
  /\ deployment = "netlify"
  /\ \/ /\ request.method = "OPTIONS"
        /\ Send(200, [raw |-> ""])
        /\ pc' = "done"
     \/ /\ request.method \notin {"OPTIONS", "POST"}
        /\ Send(405, [error |-> "Method not allowed"])
        /\ pc' = "done"
     \/ /\ request.method = "POST"
        /\ responses' = responses
        /\ pc' = "parse"
  /\ UNCHANGED <<handlerVars, passes, client, remaining, normalizerVars, prompt, imageFile, invocations, thrown, escaped>>

(***************************************************************************)
(* Reading the request: the first statements of the try block.             *)
(***************************************************************************)
\* server.js: const { prompt } = req.body; const imageFile = req.file;
\* express.json() leaves req.body = {} when no body was parsed.
ServerParse ==
  /\ pc = "parse"
  /\ deployment = "server"
  /\ prompt' = request.prompt
  /\ imageFile' = IF endpoint = "manipulate" THEN UploadedFile(request.image) ELSE Absent
  /\ pc' = "validate"
  /\ UNCHANGED <<handlerVars, passes, client, remaining, normalizerVars, invocations, thrown, responses, escaped>>

\* generate-image.js: const { prompt } = JSON.parse(event.body);
\* JSON.parse raises on text that is not JSON; JSON.parse(null) is null and
\* destructuring null raises.
NetlifyGenerateParse ==
  /\ pc = "parse"
  /\ deployment = "netlify"
  /\ endpoint = "generate"
  /\ \/ /\ request.body = "malformed"
        /\ Throw(SyntaxError)
        /\ UNCHANGED <<prompt, imageFile>>
     \/ /\ request.body = "absent"
        /\ Throw(DestructureTypeError)
        /\ UNCHANGED <<prompt, imageFile>>
     \/ /\ request.body = "ok"
        /\ prompt' = request.prompt
        /\ pc' = "validate"
        /\ UNCHANGED <<imageFile, thrown, escaped>>
  /\ UNCHANGED <<handlerVars, passes, client, remaining, normalizerVars, invocations, responses>>

\* parseMultipartFormData: a field is set only when its part holds data, so
\* an empty prompt field leaves formData.prompt undefined.
parseMultipartFormData(req) ==
  [prompt |-> IF Truthy(req.prompt) THEN req.prompt ELSE Absent,
   image |-> IF req.image = "none" THEN Absent
             ELSE Some([data |-> IF req.image = "tooLarge" THEN "large" ELSE "small",
                        mimeType |-> IF req.image = "notImage" THEN "text/plain"
                                     ELSE "image/png"])]

\* manipulate-image.js: the content type checks, then parseMultipartFormData.
NetlifyManipulateParse ==
  /\ pc = "parse"
  /\ deployment = "netlify"
  /\ endpoint = "manipulate"
  /\ \/ /\ request.contentType = "absent"
        /\ Send(400, [error |-> "Content-Type must be multipart/form-data"])
        /\ pc' = "done"
        /\ UNCHANGED <<prompt, imageFile, thrown, escaped>>
     \/ /\ request.contentType = "noBoundary"
        /\ Send(400, [error |-> "Missing boundary in Content-Type"])
        /\ pc' = "done"
        /\ UNCHANGED <<prompt, imageFile, thrown, escaped>>
     \/ /\ request.contentType = "multipart"
        /\ request.body = "absent"
        /\ Throw(SplitTypeError)
        /\ UNCHANGED <<prompt, imageFile, responses>>
     \/ /\ request.contentType = "multipart"
        /\ request.body = "ok"
        /\ prompt' = parseMultipartFormData(request).prompt
        /\ imageFile' = parseMultipartFormData(request).image
        /\ pc' = "validate"
        /\ UNCHANGED <<thrown, escaped, responses>>
  /\ UNCHANGED <<handlerVars, passes, client, remaining, normalizerVars, invocations>>

\* (variant: the credential is not tested)
ValidateWithoutKeyTest ==
  /\ pc = "validate"
  /\ \/ /\ ~Truthy(prompt)
        /\ Send(400, [error |-> "Prompt is required"])
        /\ pc' = "done"
     \/ /\ Truthy(prompt)
        /\ endpoint = "manipulate"
        /\ ~imageFile.has
        /\ Send(400, [error |-> "Image file is required"])
        /\ pc' = "done"
     \/ /\ Truthy(prompt)
        /\ endpoint = "manipulate" => imageFile.has
        /\ responses' = responses
        /\ pc' = "invoke"
  /\ UNCHANGED <<handlerVars, passes, client, remaining, normalizerVars, prompt, imageFile, invocations, thrown, escaped>>

\* (variant: the credential is tested before the image)
ValidateKeyBeforeImage ==
  /\ pc = "validate"
  /\ \/ /\ ~Truthy(prompt)
        /\ Send(400, [error |-> "Prompt is required"])
        /\ pc' = "done"
     \/ /\ Truthy(prompt)
        /\ ~apiKey
        /\ Send(500, [error |-> "GEMINI_API_KEY not configured"])
        /\ pc' = "done"
     \/ /\ Truthy(prompt)
        /\ apiKey
        /\ endpoint = "manipulate"
        /\ ~imageFile.has
        /\ Send(400, [error |-> "Image file is required"])
        /\ pc' = "done"
     \/ /\ Truthy(prompt)
        /\ apiKey
        /\ endpoint = "manipulate" => imageFile.has
        /\ responses' = responses
        /\ pc' = "invoke"
  /\ UNCHANGED <<handlerVars, passes, client, remaining, normalizerVars, prompt, imageFile, invocations, thrown, escaped>>

(***************************************************************************)
(* Validation: prompt, then (manipulate) the image, then the credential.   *)
(***************************************************************************)
Validate ==
  /\ pc = "validate"
  /\ \/ /\ ~Truthy(prompt)
        /\ Send(400, [error |-> "Prompt is required"])
        /\ pc' = "done"
     \/ /\ Truthy(prompt)
        /\ endpoint = "manipulate"
        /\ ~imageFile.has
        /\ Send(400, [error |-> "Image file is required"])
        /\ pc' = "done"
     \/ /\ Truthy(prompt)
        /\ endpoint = "manipulate" => imageFile.has
        /\ ~apiKey
        /\ Send(500, [error |-> "GEMINI_API_KEY not configured"])
        /\ pc' = "done"
     \/ /\ Truthy(prompt)
        /\ endpoint = "manipulate" => imageFile.has
        /\ apiKey
        /\ responses' = responses
        /\ pc' = "invoke"
  /\ UNCHANGED <<handlerVars, passes, client, remaining, normalizerVars, prompt, imageFile, invocations, thrown, escaped>>


(***************************************************************************)
(* The upstream call: await ai.models.generateContentStream(...).  It      *)
(* either yields the chunk stream or raises with the client's status.      *)
(***************************************************************************)
InvokeUpstream ==
  /\ pc = "invoke"
  /\ invocations' = invocations + 1
  /\ \/ /\ pc' = "iterate"
        /\ remaining' \in 0..MaxChunks
        /\ UNCHANGED <<thrown, escaped>>
     \/ /\ \E status \in UpstreamStatuses : Throw(ApiError(status))
        /\ remaining' = remaining
  /\ UNCHANGED <<handlerVars, passes, client, normalizerVars, prompt, imageFile, responses>>

(***************************************************************************)
(* processAIResponse(response, baseFileName)                               *)
(***************************************************************************)
baseFileName == IF endpoint = "generate" THEN "text_to_image" ELSE "image_manipulation"

\* (variant: the text field is tested before the inline data)
ChunkOutcomeTextFirst(chunk) ==
  IF GuardRaises(chunk) THEN "raise"
  ELSE IF GuardSkips(chunk) THEN "skip"
  ELSE IF Truthy(chunk.text) THEN "text"
  ELSE IF FirstInlineData(chunk).has THEN "image"
  ELSE "none"

\* What the loop body does with one chunk.
ChunkOutcome(chunk) ==
  IF GuardRaises(chunk) THEN "raise"
  ELSE IF GuardSkips(chunk) THEN "skip"
  ELSE IF FirstInlineData(chunk).has THEN "image"
  ELSE IF Truthy(chunk.text) THEN "text"
  ELSE "none"

\* The entry pushed for an image chunk by the Netlify functions ...
ImageResult(inlineData, name) ==
  [type |-> "image", data |-> inlineData.data, mimeType |-> inlineData.mimeType,
   filename |-> name]
\* (variant: the server reports the type the extension was derived from)
SavedImageResultDefaultType(mimeType, path) ==
  [type |-> "image", url |-> path,
   mimeType |-> IF Truthy(mimeType) THEN mimeType ELSE Some("image/png")]
\* ... and by the server, once saveBinaryFile has returned the path.
SavedImageResult(mimeType, path) ==
  [type |-> "image", url |-> path, mimeType |-> mimeType]
TextResult(chunk) == [type |-> "text", content |-> chunk.text.v]

\* (variants: the entry goes to the front; an entry equal to the last one is dropped)
pushFront(list, entry) == <<entry>> \o list
pushUnlessRepeated(list, entry) ==
  IF Len(list) > 0 /\ list[Len(list)] = entry THEN list ELSE Append(list, entry)
\* results.push(entry): the entry goes to the end of the list.
push(list, entry) == Append(list, entry)

\* (variant: the index is not advanced)
keepIndex(index) == index
\* fileIndex++ : the value of fileIndex after the file name has been built.
postIncrement(index) == index + 1

\* Date.now() is read once per image chunk; the clock never runs backwards.
ClockReadings == {t \in {now, now + 1} : t <= Epoch + MaxTicks}

\* One iteration of `for await (const chunk of response)`.
NextChunk ==
  /\ pc = "iterate"
  /\ remaining > 0
  /\ remaining' = remaining - 1
  /\ \E chunk \in ChunkSet :
       /\ \/ /\ ChunkOutcome(chunk) = "raise"
             /\ Throw(ContentTypeError)
             /\ Unwind
             /\ now' = now
          \/ /\ ChunkOutcome(chunk) \in {"skip", "none"}
             /\ history' = Append(history, chunk)
             /\ UNCHANGED <<results, fileIndex, pending, now, pc, thrown, escaped>>
          \/ /\ ChunkOutcome(chunk) = "image"
             /\ \E t \in ClockReadings :
                  LET inlineData == FirstInlineData(chunk).v
                      name == fullFileName(baseFileName, t, fileIndex, inlineData)
                  IN /\ history' = Append(history, chunk)
                     /\ now' = t
                     /\ fileIndex' = postIncrement(fileIndex)
                     /\ IF deployment = "server"
                        THEN /\ pending' = Some([name |-> name, mimeType |-> inlineData.mimeType])
                             /\ pc' = "save"
                             /\ results' = results
                        ELSE /\ results' = push(results, ImageResult(inlineData, name))
                             /\ UNCHANGED <<pending, pc>>
             /\ UNCHANGED <<thrown, escaped>>
          \/ /\ ChunkOutcome(chunk) = "text"
             /\ history' = Append(history, chunk)
             /\ results' = push(results, TextResult(chunk))
             /\ UNCHANGED <<fileIndex, pending, now, pc, thrown, escaped>>
  /\ UNCHANGED <<handlerVars, passes, client, prompt, imageFile, invocations, disk, responses>>

\* (variant: the write error is logged and not thrown again; the image is dropped)
saveBinaryFileSwallowing ==
  /\ pc = "save"
  /\ \/ /\ disk' = disk \cup {pending.v.name}
        /\ results' = push(results,
                           SavedImageResult(pending.v.mimeType, <<"/generated/">> \o pending.v.name))
        /\ pending' = Absent
        /\ pc' = "iterate"
        /\ UNCHANGED <<history, fileIndex, thrown, escaped>>
     \/ /\ thrown' = WriteError
        /\ pending' = Absent
        /\ pc' = "iterate"
        /\ UNCHANGED <<history, results, fileIndex, disk, escaped>>
  /\ UNCHANGED <<handlerVars, passes, client, remaining, prompt, imageFile, invocations, now, responses>>

\* server.js: await saveBinaryFile(`${fileName}.${fileExtension}`, buffer).
\* mkdir or writeFile may fail; the error is logged and thrown again.
saveBinaryFile ==
  /\ pc = "save"
  /\ \/ /\ disk' = disk \cup {pending.v.name}
        /\ results' = push(results,
                           SavedImageResult(pending.v.mimeType, <<"/generated/">> \o pending.v.name))
        /\ pending' = Absent
        /\ pc' = "iterate"
        /\ UNCHANGED <<history, fileIndex, thrown, escaped>>
     \/ /\ Throw(WriteError)
        /\ Unwind
        /\ UNCHANGED disk
  /\ UNCHANGED <<handlerVars, passes, client, remaining, prompt, imageFile, invocations, now, responses>>

\* (variant: the loop is left while the stream still holds chunks)
StreamEndsEarly ==
  /\ pc = "iterate"
  /\ pc' = "respond"
  /\ UNCHANGED <<handlerVars, passes, client, remaining, normalizerVars, prompt, imageFile, invocations,
                 thrown, responses, escaped>>

\* The stream is exhausted: processAIResponse returns results.
StreamEnds ==
  /\ pc = "iterate"
  /\ remaining = 0
  /\ pc' = "respond"
  /\ UNCHANGED <<handlerVars, passes, client, remaining, normalizerVars, prompt, imageFile, invocations, thrown,
                 responses, escaped>>

\* The upstream transport fails while the next chunk is awaited.
StreamFails ==
  /\ pc = "iterate"
  /\ \E status \in UpstreamStatuses : Throw(StreamError(status))
  /\ Unwind
  /\ UNCHANGED <<handlerVars, passes, client, remaining, now, disk, prompt, imageFile, invocations, responses>>

(***************************************************************************)
(* The handler's answer.                                                   *)
(***************************************************************************)
SuccessBody ==
  IF endpoint = "generate"
  THEN [success |-> TRUE, prompt |-> prompt.v, results |-> results]
  ELSE IF deployment = "server"
  THEN [success |-> TRUE, prompt |-> prompt.v,
        originalImage |-> [name |-> imageFile.v.originalname, size |-> imageFile.v.size,
                           mimeType |-> imageFile.v.mimetype],
        results |-> results]
  ELSE [success |-> TRUE, prompt |-> prompt.v,
        originalImage |-> [mimeType |-> imageFile.v.mimeType], results |-> results]

\* (variant: the empty list is not told apart)
neverEmpty(list) == FALSE
\* results.length === 0
isEmpty(list) == Len(list) = 0

Respond ==
  /\ pc = "respond"
  /\ IF isEmpty(results)
     THEN Send(500, [error |-> "No content generated"])
     ELSE Send(200, SuccessBody)
  /\ pc' = "done"
  /\ UNCHANGED <<handlerVars, passes, client, remaining, normalizerVars, prompt, imageFile, invocations, thrown, escaped>>

\* (variant: every failure is answered with the generic 500)
ErrorResponseGeneric(error) ==
  Response(500, [error |-> IF endpoint = "generate" THEN "Failed to generate image"
                           ELSE "Failed to manipulate image",
                 details |-> error.message])

\* The catch clause: error.status selects the response.
ErrorResponse(error) ==
  IF error.status = Some(429)
  THEN Response(429, [error |-> "API rate limit exceeded",
                      details |-> "You have exceeded the API rate limit.",
                      suggestion |-> "Consider upgrading your API plan for higher limits."])
  ELSE IF error.status = Some(401)
  THEN Response(401, [error |-> "Invalid API key", details |-> "Please check your GEMINI_API_KEY"])
  ELSE IF error.status = Some(400)
  THEN Response(400, [error |-> "Invalid request", details |-> error.message])
  ELSE Response(500, [error |-> IF endpoint = "generate" THEN "Failed to generate image"
                                ELSE "Failed to manipulate image",
                      details |-> error.message])

\* (variant: a rate-limited call is made again)
CatchErrorRetrying ==
  /\ pc = "catch"
  /\ IF thrown.status = Some(429)
     THEN pc' = "invoke" /\ responses' = responses
     ELSE pc' = "done" /\ responses' = Append(responses, ErrorResponse(thrown))
  /\ UNCHANGED <<handlerVars, passes, client, remaining, normalizerVars, prompt, imageFile, invocations, thrown, escaped>>

CatchError ==
  /\ pc = "catch"
  /\ responses' = Append(responses, ErrorResponse(thrown))
  /\ pc' = "done"
  /\ UNCHANGED <<handlerVars, passes, client, remaining, normalizerVars, prompt, imageFile, invocations, thrown, escaped>>

Next ==
  \/ ExpressMiddleware
  \/ ErrorMiddleware
  \/ MethodCheck
  \/ ServerParse
  \/ NetlifyGenerateParse
  \/ NetlifyManipulateParse
  \/ Validate
  \/ InvokeUpstream
  \/ NextChunk
  \/ saveBinaryFile
  \/ StreamEnds
  \/ StreamFails
  \/ Respond
  \/ CatchError

Spec == Init /\ [][Next]_vars

(***************************************************************************)
(* Two requests of the server at once.  Each await in processAIResponse    *)
(* (the for await, saveBinaryFile) lets the other request run; the two     *)
(* passes share Date.now() and the directory public/generated and nothing  *)
(* else.  Each pass keeps its own fileIndex and the names it has written;  *)
(* the handler around the pass is the one of Spec and is left out here.    *)
(***************************************************************************)
MaxPassChunks == 2

PassIds == {1, 2}

PassStart(base) ==
  [pc |-> "iterate", baseFileName |-> base, pulled |-> 0, fileIndex |-> 0,
   pending |-> Absent, written |-> {}]

\* Both requests have reached processAIResponse; no file was written yet.
InitConcurrent ==
  /\ deployment = "server"
  /\ endpoint = "generate"
  /\ request \in {r \in Requests(deployment, endpoint) : r.body = "ok" /\ Truthy(r.prompt)}
  /\ apiKey = TRUE
  /\ pc = "entry"
  /\ prompt = Absent
  /\ imageFile = Absent
  /\ invocations = 0
  /\ history = << >>
  /\ results = << >>
  /\ fileIndex = 0
  /\ pending = Absent
  /\ now = Epoch
  /\ disk = {}
  /\ thrown = NoError
  /\ responses = << >>
  /\ escaped = FALSE
  /\ passes \in [PassIds -> {PassStart("text_to_image"), PassStart("image_manipulation")}]
  /\ remaining = 0
  /\ client = NoClient

passUnchanged ==
  UNCHANGED <<handlerVars, pc, prompt, imageFile, invocations, history, results, fileIndex,
              pending, thrown, responses, escaped, remaining, client>>

\* One iteration of pass i's loop.
PassNextChunk(i) ==
  /\ passes[i].pc = "iterate"
  /\ passes[i].pulled < MaxPassChunks
  /\ \E chunk \in ChunkSet :
       \/ /\ ChunkOutcome(chunk) = "raise"
          /\ passes' = [passes EXCEPT ![i].pc = "failed"]
          /\ now' = now
       \/ /\ ChunkOutcome(chunk) \in {"skip", "none", "text"}
          /\ passes' = [passes EXCEPT ![i].pulled = @ + 1]
          /\ now' = now
       \/ /\ ChunkOutcome(chunk) = "image"
          /\ \E t \in ClockReadings :
               /\ now' = t
               /\ passes' = [passes EXCEPT
                     ![i].pulled = @ + 1,
                     ![i].fileIndex = postIncrement(@),
                     ![i].pending = Some(fullFileName(passes[i].baseFileName, t,
                                                      passes[i].fileIndex,
                                                      FirstInlineData(chunk).v)),
                     ![i].pc = "save"]
  /\ UNCHANGED disk
  /\ passUnchanged

\* Pass i's saveBinaryFile: writeFile replaces a file of that name.
PassSaveBinaryFile(i) ==
  /\ passes[i].pc = "save"
  /\ \/ /\ disk' = disk \cup {passes[i].pending.v}
        /\ passes' = [passes EXCEPT ![i].written = @ \cup {passes[i].pending.v},
                                 ![i].pending = Absent, ![i].pc = "iterate"]
     \/ /\ disk' = disk
        /\ passes' = [passes EXCEPT ![i].pending = Absent, ![i].pc = "failed"]
  /\ now' = now
  /\ passUnchanged

\* Pass i's stream is exhausted.
PassStreamEnds(i) ==
  /\ passes[i].pc = "iterate"
  /\ passes' = [passes EXCEPT ![i].pc = "returned"]
  /\ UNCHANGED <<now, disk>>
  /\ passUnchanged

NextConcurrent ==
  \/ \E i \in PassIds : PassNextChunk(i)
  \/ \E i \in PassIds : PassSaveBinaryFile(i)
  \/ \E i \in PassIds : PassStreamEnds(i)

SpecConcurrent == InitConcurrent /\ [][NextConcurrent]_vars

(***************************************************************************)
(* test-api.js: the page's GoogleAIImageApp.  Its state is the fields and  *)
(* elements the event handlers read and write; the user's events and the   *)
(* completions of fetch and FileReader arrive in any order.                *)
(***************************************************************************)
MaxInFlight == 2
MaxReaders == 1

PromptTexts == {"", " ", "a red circle"}
\* String.prototype.trim
trim(text) == IF text = " " THEN "" ELSE text

Files == {"image", "notImage", "tooLarge"}

\* After the constructor: initializeElements, bindEvents, checkServerHealth.
\* manipulateBtn's disabled attribute comes from the page's markup.
InitClient ==
  /\ deployment = "server"
  /\ endpoint = "generate"
  /\ request \in {r \in Requests(deployment, endpoint) : r.body = "ok" /\ Truthy(r.prompt)}
  /\ apiKey = TRUE
  /\ pc = "entry"
  /\ prompt = Absent
  /\ imageFile = Absent
  /\ invocations = 0
  /\ history = << >>
  /\ results = << >>
  /\ fileIndex = 0
  /\ pending = Absent
  /\ now = Epoch
  /\ disk = {}
  /\ thrown = NoError
  /\ responses = << >>
  /\ escaped = FALSE
  /\ passes = NoPasses
  /\ remaining = 0
  /\ client \in [generatePrompt : {""}, manipulatePrompt : {""}, uploadedFile : {Absent},
                  uploadAreaShown : {TRUE}, readers : {0}, loading : {FALSE},
                  generateBtnDisabled : {FALSE}, manipulateBtnDisabled : BOOLEAN,
                  error : {FALSE}, healthCheck : {TRUE}, inFlight : {0}]

clientUnchanged ==
  UNCHANGED <<handlerVars, pc, prompt, imageFile, invocations, normalizerVars, thrown,
              responses, escaped, passes, remaining>>

\* showLoading(); hideError(); and the fetch is started.
StartRequest ==
  /\ client.inFlight < MaxInFlight
  /\ client' = [client EXCEPT !.loading = TRUE, !.generateBtnDisabled = TRUE,
                               !.manipulateBtnDisabled = TRUE, !.error = FALSE,
                               !.inFlight = @ + 1]

showError == client' = [client EXCEPT !.error = TRUE]

generateImage ==
  IF trim(client.generatePrompt) = "" THEN showError ELSE StartRequest

manipulateImage ==
  IF trim(client.manipulatePrompt) = "" THEN showError
  ELSE IF ~client.uploadedFile.has THEN showError
  ELSE StartRequest

\* The user edits a prompt field.
EditPrompt ==
  /\ \E text \in PromptTexts :
       \/ client' = [client EXCEPT !.generatePrompt = text]
       \/ client' = [client EXCEPT !.manipulatePrompt = text]
  /\ clientUnchanged

\* A click reaches the listener only while the button is not disabled.
ClickGenerate ==
  /\ ~client.generateBtnDisabled
  /\ generateImage
  /\ clientUnchanged

ClickManipulate ==
  /\ ~client.manipulateBtnDisabled
  /\ manipulateImage
  /\ clientUnchanged

\* keypress with e.key === 'Enter' && e.ctrlKey in a prompt field.
CtrlEnterGenerate ==
  /\ generateImage
  /\ clientUnchanged

CtrlEnterManipulate ==
  /\ manipulateImage
  /\ clientUnchanged

\* handleDrop / handleFileSelect -> handleFile(file): the upload area takes
\* files while it is shown.
handleFile ==
  /\ client.uploadAreaShown
  /\ \E file \in Files :
       IF file # "image" THEN showError
       ELSE /\ client.readers < MaxReaders
            /\ client' = [client EXCEPT !.uploadedFile = Some(file), !.readers = @ + 1]
  /\ clientUnchanged

\* reader.onload
ReaderLoaded ==
  /\ client.readers > 0
  /\ client' = [client EXCEPT !.readers = @ - 1, !.uploadAreaShown = FALSE,
                               !.manipulateBtnDisabled = FALSE]
  /\ clientUnchanged

\* The remove button is inside the uploaded image's container.
removeUploadedImage ==
  /\ ~client.uploadAreaShown
  /\ client' = [client EXCEPT !.uploadedFile = Absent, !.uploadAreaShown = TRUE,
                               !.manipulateBtnDisabled = TRUE]
  /\ clientUnchanged

\* A fetch settles: displayResults or showError, then finally hideLoading().
RequestSettles ==
  /\ client.inFlight > 0
  /\ \E failed \in BOOLEAN :
       client' = [client EXCEPT !.inFlight = @ - 1,
                                !.error = failed \/ @,
                                !.loading = FALSE,
                                !.generateBtnDisabled = FALSE,
                                !.manipulateBtnDisabled = ~client.uploadedFile.has]
  /\ clientUnchanged

\* checkServerHealth's fetch of /api/health settles.
HealthCheckSettles ==
  /\ client.healthCheck
  /\ \E failed \in BOOLEAN :
       client' = [client EXCEPT !.healthCheck = FALSE, !.error = failed \/ @]
  /\ clientUnchanged

\* The close button of the error box, or Escape.
hideError ==
  /\ client.error
  /\ client' = [client EXCEPT !.error = FALSE]
  /\ clientUnchanged

NextClient ==
  \/ EditPrompt
  \/ ClickGenerate
  \/ ClickManipulate
  \/ CtrlEnterGenerate
  \/ CtrlEnterManipulate
  \/ handleFile
  \/ ReaderLoaded
  \/ removeUploadedImage
  \/ RequestSettles
  \/ HealthCheckSettles
  \/ hideError

SpecClient == InitClient /\ [][NextClient]_vars

(***************************************************************************)
(* processAIResponse as a function of the whole stream, for one deployment *)
(* with every file write succeeding: the loop body applied chunk by chunk  *)
(* to the locals results and fileIndex.  t is the reading of Date.now().   *)
(***************************************************************************)
LoopBody(dep, locals, chunk, base, t) ==
  IF locals.raised THEN locals
  ELSE IF ChunkOutcome(chunk) = "raise" THEN [locals EXCEPT !.raised = TRUE]
  ELSE IF ChunkOutcome(chunk) = "image"
  THEN LET inlineData == FirstInlineData(chunk).v
           name == fullFileName(base, t, locals.fileIndex, inlineData)
       IN [locals EXCEPT
             !.fileIndex = postIncrement(@),
             !.results = push(@, IF dep = "server"
                                 THEN SavedImageResult(inlineData.mimeType,
                                                       <<"/generated/">> \o name)
                                 ELSE ImageResult(inlineData, name))]
  ELSE IF ChunkOutcome(chunk) = "text"
  THEN [locals EXCEPT !.results = push(@, TextResult(chunk))]
  ELSE locals

RECURSIVE processAIResponse(_, _, _, _)
processAIResponse(dep, response, base, t) ==
  IF Len(response) = 0
  THEN [results |-> << >>, fileIndex |-> 0, raised |-> FALSE]
  ELSE LoopBody(dep, processAIResponse(dep, SubSeq(response, 1, Len(response) - 1), base, t),
                response[Len(response)], base, t)


(***************************************************************************)
(* Vocabulary of the properties.                                           *)
(***************************************************************************)
\* The chunk has the candidates / content / parts path.
WellFormed(chunk) ==
  /\ chunk.candidates.has
  /\ Len(chunk.candidates.v) > 0
  /\ chunk.candidates.v[1].content.has
  /\ chunk.candidates.v[1].content.v.parts.has

FirstParts(chunk) == chunk.candidates.v[1].content.v.parts.v

\* The first content part of the chunk carries inline binary data.
CarriesInline(chunk) ==
  /\ WellFormed(chunk)
  /\ Len(FirstParts(chunk)) > 0
  /\ FirstParts(chunk)[1].inlineData.has

DeclaredType(chunk) == FirstParts(chunk)[1].inlineData.v.mimeType

\* processAIResponse has returned its list to the handler.
Returned == pc = "respond"
\* The pass is between two chunks, or has returned.
AtChunkBoundary == pc \in {"iterate", "respond"}

\* The file name inside an image result: its filename, or the tail of its url.
NameOf(r) == IF "filename" \in DOMAIN r THEN r.filename ELSE Tail(r.url)

IsDigit(token) == \E d \in 1..10 : DigitChars[d] = token
DigitValue(token) == (CHOOSE d \in 1..10 : DigitChars[d] = token) - 1

RECURSIVE Number(_)
Number(digits) ==
  IF Len(digits) = 0 THEN 0
  ELSE 10 * Number(SubSeq(digits, 1, Len(digits) - 1)) + DigitValue(digits[Len(digits)])

\* name = base _ timestamp _ index . ext : the digits between the last "_"
\* and the "." are the index.
LastUnderscore(name) == CHOOSE k \in 1..Len(name) :
  name[k] = "_" /\ \A j \in (k + 1)..Len(name) : name[j] # "_"
IndexOf(name) == Number(SubSeq(name, LastUnderscore(name) + 1, Len(name) - 2))
ExtensionOf(name) == name[Len(name)]

\* The result r is the one chunk calls for: an image of the declared type, or
\* a text with the chunk's text as content.
ResultOf(r, chunk) ==
  IF CarriesInline(chunk)
  THEN r.type = "image" /\ r.mimeType = DeclaredType(chunk)
  ELSE r = [type |-> "text", content |-> chunk.text.v]

\* list holds, in order, exactly the results of the chunks.
ResultsOf(list, chunks) ==
  /\ Len(list) = Len(chunks)
  /\ \A i \in 1..Len(chunks) : ResultOf(list[i], chunks[i])

\* A chunk that, as C1 is stated, calls for a result.
CarriesInlineOrText(chunk) == CarriesInline(chunk) \/ chunk.text.has

\* A chunk for which the pass adds a result.
Emits(chunk) == WellFormed(chunk) /\ (CarriesInline(chunk) \/ Truthy(chunk.text))

\* Well-formed chunks with a text field and no inline data, and their texts.
TextChunk(chunk) == WellFormed(chunk) /\ ~CarriesInline(chunk) /\ chunk.text.has
NonEmptyTextChunk(chunk) == TextChunk(chunk) /\ chunk.text.v # ""
TextsOf(chunks) == [i \in 1..Len(chunks) |-> [type |-> "text", content |-> chunks[i].text.v]]

\* The chunk misses candidates, content or parts.
MissingPath(chunk) ==
  \/ ~chunk.candidates.has
  \/ /\ Len(chunk.candidates.v) > 0
     /\ \/ ~chunk.candidates.v[1].content.has
        \/ ~chunk.candidates.v[1].content.v.parts.has

\* The extension a declared media type calls for: png unless the type is
\* a recognized one with another extension.
ExpectedExtension(mimeType) ==
  IF mimeType = Some("image/jpeg") THEN "jpeg" ELSE "png"

\* The request is a POST; it has been answered; the pass returned normally.
IsPost == request.method = "POST"
Answered == pc = "done" /\ Len(responses) = 1
NormalizerReturned == invocations = 1 /\ thrown = NoError

\* The response status an upstream status calls for.
ExpectedStatus(status) ==
  IF status.has /\ status.v \in {429, 401, 400} THEN status.v ELSE 500

(***************************************************************************)
(* C1.  As stated: the returned list holds, in arrival order, exactly one  *)
(* result for each chunk that carried inline data in its first content     *)
(* part or carried a text field, and none for any other chunk.             *)
(***************************************************************************)
C1_AsStated == Returned => ResultsOf(results, SelectSeq(history, CarriesInlineOrText))

(***************************************************************************)
(* C1, amended.  At every chunk boundary of the pass, and so when it       *)
(* returns, the list holds in arrival order exactly one result for each    *)
(* chunk consumed that has the candidates/content/parts path and carries   *)
(* inline data in its first part or else a non-empty text, and none for    *)
(* any other chunk; equal adjacent texts stay separate entries.            *)
(***************************************************************************)
C1_OrderedOnePerChunk == AtChunkBoundary => ResultsOf(results, SelectSeq(history, Emits))

C1_Witness ==
  /\ Returned
  /\ Len(history) = 3
  /\ CarriesInline(history[1])
  /\ ~WellFormed(history[2]) /\ history[2].text.has
  /\ history[3] = Chunk(TextOnly, Some("b"))
  /\ Len(results) = 2

(***************************************************************************)
(* C2.  As stated: a stream of well-formed chunks that carry a text field  *)
(* and no inline data returns one Text result per chunk, contents equal    *)
(* to the text fields in order.                                            *)
(***************************************************************************)
C2_AsStated ==
  (Returned /\ \A i \in 1..Len(history) : TextChunk(history[i]))
    => results = TextsOf(history)

\* C2, amended: the same for chunks whose text field is not empty.
C2_TextsInOrder ==
  (Returned /\ \A i \in 1..Len(history) : NonEmptyTextChunk(history[i]))
    => results = TextsOf(history)

C2_Witness ==
  /\ Returned
  /\ Len(history) = 3
  /\ \A i \in 1..3 : NonEmptyTextChunk(history[i])
  /\ history[1].text = history[2].text
  /\ history[2].text # history[3].text
  /\ Len(results) = 3

(***************************************************************************)
(* C3.  A stream of well-formed inline-binary chunks returns one Image     *)
(* result per chunk; the index in the i-th file name is i - 1 and the      *)
(* file names of one call are pairwise distinct.                           *)
(***************************************************************************)
C3_ImagesIndexed ==
  (Returned /\ \A i \in 1..Len(history) : CarriesInline(history[i]))
    => /\ Len(results) = Len(history)
       /\ \A i \in 1..Len(results) :
            /\ results[i].type = "image"
            /\ IndexOf(NameOf(results[i])) = i - 1
       /\ \A i, j \in 1..Len(results) : i # j => NameOf(results[i]) # NameOf(results[j])

C3_Witness ==
  /\ Returned
  /\ Len(history) = 3
  /\ \A i \in 1..3 : CarriesInline(history[i])
  /\ IndexOf(NameOf(results[3])) = 2
  /\ now = Epoch + 1


(***************************************************************************)
(* C4.  Consuming a chunk that misses candidates, content or parts leaves  *)
(* the pass exactly where it was: no result is added, the image index and  *)
(* the clock are untouched and the loop goes on to the next chunk, so the  *)
(* results, indices and order of all other chunks are what they would be   *)
(* without that chunk.                                                     *)
(***************************************************************************)
C4_SkippedChunkLeavesNoTrace ==
  [][(/\ pc = "iterate"
      /\ Len(history') = Len(history) + 1
      /\ MissingPath(history'[Len(history')]))
       => /\ results' = results
          /\ fileIndex' = fileIndex
          /\ now' = now
          /\ disk' = disk
          /\ pc' = "iterate"]_vars

C4_Witness ==
  /\ Returned
  /\ Len(history) = 3
  /\ CarriesInline(history[1])
  /\ MissingPath(history[2]) /\ history[2].text.has
  /\ CarriesInline(history[3])
  /\ Len(results) = 2
  /\ IndexOf(NameOf(results[2])) = 1

(***************************************************************************)
(* C5.  processAIResponse never raises because of a chunk that lacks the   *)
(* candidates/content/parts path: such a chunk is skipped.                 *)
(***************************************************************************)
C5_MalformedChunkNeverRaises == thrown # ContentTypeError

(***************************************************************************)
(* C6.  The extension of every generated file name is the one derived      *)
(* from the declared media type, and png when the type is absent or not a  *)
(* recognized media type.                                                  *)
(***************************************************************************)
C6_ExtensionDefaultsToPng ==
  \A i \in 1..Len(results) :
    results[i].type = "image"
      => ExtensionOf(NameOf(results[i])) = ExpectedExtension(results[i].mimeType)

(***************************************************************************)
(* C7.  A POST request is answered with a 2xx body exactly when            *)
(* processAIResponse returned a non-empty list, and then the body carries  *)
(* that list; a pass that returns no result is answered with 500; a        *)
(* request that failed carries no result list.                             *)
(***************************************************************************)
C7_SuccessIffResults ==
  (pc = "done" /\ IsPost)
    => /\ Len(responses) = 1
       /\ (responses[1].status \in 200..299) <=> (NormalizerReturned /\ Len(results) > 0)
       /\ responses[1].status \in 200..299
            => responses[1].body.success /\ responses[1].body.results = results
       /\ (NormalizerReturned /\ Len(results) = 0) => responses[1].status = 500
       /\ thrown # NoError => "results" \notin DOMAIN responses[1].body

C7_Witness ==
  /\ Answered
  /\ IsPost
  /\ Len(history) = 3
  /\ responses[1].status = 200
  /\ Len(responses[1].body.results) = 2

(***************************************************************************)
(* C8.  An upstream failure with status 429, 401 or 400 is answered with   *)
(* that status, any other upstream failure with 500, whether the call or   *)
(* the stream failed, in all four handlers.                                *)
(***************************************************************************)
C8_UpstreamStatusSurfaced ==
  (pc = "done" /\ thrown.name = "ApiError")
    => Len(responses) = 1 /\ responses[1].status = ExpectedStatus(thrown.status)

C8_Witness ==
  /\ Answered
  /\ deployment = "netlify"
  /\ endpoint = "manipulate"
  /\ thrown = StreamError(Some(429))
  /\ responses[1].status = 429

(***************************************************************************)
(* C9.  Every request ends with exactly one response: no exception leaves  *)
(* the handler, no response is sent before the handler is done and one has *)
(* been sent when it is, a failed request is answered with an error body,  *)
(* and a handler that is not done can take a step.                         *)
(***************************************************************************)
C9_OneResponseNoEscape ==
  /\ ~escaped
  /\ (pc = "done") <=> (Len(responses) = 1)
  /\ (pc # "done") <=> (Len(responses) = 0)
  /\ (pc = "done" /\ thrown # NoError)
       => "error" \in DOMAIN responses[1].body /\ responses[1].status >= 400
  /\ pc # "done" => ENABLED Next

C9_Witness ==
  /\ Answered
  /\ deployment = "netlify"
  /\ thrown = DestructureTypeError
  /\ responses[1].status = 500
  /\ responses[1].body.error = "Failed to generate image"

(***************************************************************************)
(* C10.  The upstream client is invoked at most once per request.          *)
(***************************************************************************)
C10_AtMostOneInvocation == invocations <= 1

C10_Witness ==
  /\ Answered
  /\ invocations = 1
  /\ thrown.name = "ApiError"
  /\ thrown.status = Some(429)

(***************************************************************************)
(* Request validation (server.js 105-115, 183-198; the functions' handlers) *)
(***************************************************************************)
\* A multipart POST to /manipulate-image whose form was read.
ManipulatePost ==
  /\ endpoint = "manipulate"
  /\ IsPost
  /\ request.contentType = "multipart"
  /\ request.body = "ok"

\* C11 as stated: every POST to /manipulate-image that carries no image file
\* is answered 400 {error: "Image file is required"}.
C11_AsStated ==
  (Answered /\ endpoint = "manipulate" /\ IsPost /\ request.image = "none")
    => responses[1] = Response(400, [error |-> "Image file is required"])

\* C11: a multipart POST to /manipulate-image that carries no image file never
\* reaches the upstream client.  When its form carries a non-empty prompt it
\* is answered 400 {error: "Image file is required"}, whether or not the
\* credential is set; when the form has no prompt it is answered
\* 400 {error: "Prompt is required"}; when it has no body at all the function
\* deployment answers 500.
C11_NoImageRejected ==
  (endpoint = "manipulate" /\ IsPost /\ request.image = "none")
    => /\ invocations = 0
       /\ Answered =>
            IF ~ManipulatePost THEN responses[1].status = 500
            ELSE responses[1] =
                   Response(400, [error |-> IF Truthy(request.prompt)
                                            THEN "Image file is required"
                                            ELSE "Prompt is required"])

C11_Witness ==
  /\ Answered
  /\ ManipulatePost
  /\ request.image = "none"
  /\ Truthy(request.prompt)
  /\ ~apiKey
  /\ responses[1].body.error = "Image file is required"

\* C12: a POST to /generate-image whose prompt is missing (no body, a body
\* without a prompt, or an empty prompt) never reaches the upstream client and
\* is answered 400, in both deployments.
C12_MissingPromptRejected ==
  (endpoint = "generate" /\ IsPost /\ request.body \in {"absent", "ok"}
     /\ ~Truthy(request.prompt))
    => /\ invocations = 0
       /\ Answered => responses[1].status = 400

\* C13 as stated: every POST to /generate-image made while the credential is
\* unset is answered 500.
C13_AsStated ==
  (Answered /\ endpoint = "generate" /\ IsPost /\ ~apiKey)
    => responses[1].status = 500

\* C13: a POST to /generate-image made while the credential is unset never
\* reaches the upstream client.  With a non-empty prompt it is answered
\* 500 {error: "GEMINI_API_KEY not configured"}; with a body that has no
\* prompt (for the server, also with no body) it is answered 400, the prompt
\* being tested first; a body that is not JSON, and for the function no body
\* at all, is answered 500.
C13_NoKeyRejected ==
  (endpoint = "generate" /\ IsPost /\ ~apiKey)
    => /\ invocations = 0
       /\ Answered =>
            IF Truthy(request.prompt)
            THEN responses[1] = Response(500, [error |-> "GEMINI_API_KEY not configured"])
            ELSE IF request.body = "malformed"
                      \/ (deployment = "netlify" /\ request.body = "absent")
                 THEN responses[1].status = 500
                 ELSE responses[1] = Response(400, [error |-> "Prompt is required"])

C13_Witness ==
  /\ Answered
  /\ endpoint = "generate"
  /\ IsPost
  /\ ~apiKey
  /\ Truthy(request.prompt)
  /\ responses[1].status = 500

\* C14: a POST to /manipulate-image whose uploaded file is not an image, or
\* is larger than 10 MB, never reaches the upstream client and is answered
\* 400, in both deployments.
C14_BadUploadRejected ==
  (endpoint = "manipulate" /\ IsPost /\ request.image \in {"notImage", "tooLarge"})
    => /\ invocations = 0
       /\ Answered => responses[1].status = 400

(***************************************************************************)
(* The shape of the entries of a successful response                        *)
(***************************************************************************)
\* The chunk that the i-th result was made from.
EmittingChunk(i) ==
  history[CHOOSE k \in 1..Len(history) :
            Emits(history[k]) /\ Cardinality({j \in 1..k : Emits(history[j])}) = i]

\* name reads {base}_{digits}_{digits}.{ext}
HasFileNameForm(name, base) ==
  /\ Len(name) >= 7
  /\ name[1] = base
  /\ name[2] = "_"
  /\ name[Len(name) - 1] = "."
  /\ LET u == LastUnderscore(name)
     IN /\ u > 3
        /\ u < Len(name) - 2
        /\ \A j \in (3..(u - 1)) \cup ((u + 1)..(Len(name) - 2)) : IsDigit(name[j])

\* The request was answered 200 with a results list.
Succeeded == Answered /\ IsPost /\ responses[1].status = 200

\* C15: every image entry of a successful response carries type "image", the
\* declared mimeType, a filename of the form {baseName}_{millis}_{index}.{ext}
\* and either data or url, in both deployments; and /generate-image on the
\* stream [image/png inline chunk, text chunk] answers exactly
\* [image named text_to_image_*_0.png, text with the chunk's content].
C15_ImageEntryShape ==
  Succeeded =>
    LET entries == responses[1].body.results
    IN /\ \A i \in 1..Len(entries) :
            entries[i].type = "image" =>
              /\ "mimeType" \in DOMAIN entries[i]
              /\ entries[i].mimeType = DeclaredType(EmittingChunk(i))
              /\ "filename" \in DOMAIN entries[i]
              /\ HasFileNameForm(entries[i].filename, baseFileName)
              /\ "data" \in DOMAIN entries[i] \/ "url" \in DOMAIN entries[i]
       /\ (endpoint = "generate"
             /\ history = <<Chunk(Inline(Some("image/png")), Some("a")),
                            Chunk(TextOnly, Some("b"))>>)
            => /\ Len(entries) = 2
               /\ entries[1].type = "image"
               /\ "filename" \in DOMAIN entries[1]
               /\ HasFileNameForm(entries[1].filename, "text_to_image")
               /\ IndexOf(entries[1].filename) = 0
               /\ ExtensionOf(entries[1].filename) = "png"
               /\ entries[2] = [type |-> "text", content |-> "b"]

(***************************************************************************)
(* Which result a chunk gives                                               *)
(***************************************************************************)
\* C18: between two chunks, and when the pass returns, the i-th result is an
\* image exactly when the chunk it was made from carries inline data in its
\* first content part, also when that chunk has a text field, and a text
\* otherwise: a chunk with both gives one image and no text, and a text comes
\* only from a chunk whose first part has no inline data.
C18_InlineDataBeforeText ==
  AtChunkBoundary =>
    /\ Len(results) = Cardinality({k \in 1..Len(history) : Emits(history[k])})
    /\ \A i \in 1..Len(results) :
         results[i].type = IF CarriesInline(EmittingChunk(i)) THEN "image" ELSE "text"

C18_Witness ==
  /\ AtChunkBoundary
  /\ history = << Chunk(TextOnly, Some("b")), Chunk(Inline(Some("image/png")), Some("a")) >>
  /\ Len(results) = 2
  /\ results[2].type = "image"

\* C19: a chunk is judged by the first content part of its first candidate
\* alone.  In the step that pulls a chunk without inline data there, the
\* image index stays, no file write starts and no image is added, whatever
\* its other parts and candidates carry: the step adds nothing or the text
\* result.  No step adds more than one result, and results and the write under
\* way never outnumber the chunks pulled.
C19_OnlyFirstPartInspected ==
  [][ /\ Len(results') <= Len(results) + 1
      /\ Len(results') + (IF pending'.has THEN 1 ELSE 0) <= Len(history')
      /\ \A chunk \in ChunkSet :
           (history' = Append(history, chunk) /\ ~CarriesInline(chunk)) =>
             /\ fileIndex' = fileIndex
             /\ pending' = pending
             /\ results' = results \/ results' = Append(results, TextResult(chunk)) ]_vars

C19_Witness ==
  /\ AtChunkBoundary
  /\ history = << Chunk(InlineSecondPart, Some("a")), Chunk(InlineSecondCandidate, Absent),
                  Chunk(Inline(Some("image/jpeg")), Absent) >>
  /\ fileIndex = 1
  /\ Len(results) = 2
  /\ results[1] = [type |-> "text", content |-> "a"]
  /\ IndexOf(NameOf(results[2])) = 0

(***************************************************************************)
(* The iteration over the stream                                            *)
(***************************************************************************)
\* The pass is over: it returned, or an exception left it.
PassOver == invocations = 1 /\ pc \in {"respond", "catch", "done"}

\* C20 as stated: the pass never stops before the last chunk of a stream that
\* does not fail itself, so once it is over no chunk is left.
C20_AsStated ==
  (PassOver /\ thrown.name # "ApiError") => remaining = 0

\* C20: processAIResponse returns only when the stream is exhausted, and until
\* then chunks are pulled one at a time and in arrival order: a chunk is
\* pulled only between two chunks (never while a file is being written), each
\* pull takes exactly the next chunk and appends it to those consumed, and
\* chunks consumed plus chunks left stay the length of the stream.  The pass
\* leaves chunks unpulled only by raising: on an empty candidates list, on a
\* failed file write, or when the stream fails.
C20_IteratesToExhaustion ==
  [][ /\ (pc' = "respond" \/ (pc' = "done" /\ thrown' = NoError)) => remaining' = 0
      /\ (pc' \in {"catch", "done"} /\ remaining' > 0) =>
           \/ thrown' \in {ContentTypeError, WriteError}
           \/ \E status \in UpstreamStatuses : thrown' = StreamError(status)
      /\ (pc # "invoke" /\ remaining' # remaining) =>
           /\ pc = "iterate"
           /\ ~pending.has
           /\ remaining' = remaining - 1
           /\ pc' = "catch" \/ \E chunk \in ChunkSet : history' = Append(history, chunk)
      /\ (pc \in {"iterate", "save"} /\ pc' \in {"iterate", "save", "respond"}) =>
           /\ Len(history') + remaining' = Len(history) + remaining
           /\ SubSeq(history', 1, Len(history)) = history
      /\ pc = "save" => remaining' = remaining ]_vars

C20_Witness ==
  /\ Returned
  /\ deployment = "server"
  /\ remaining = 0
  /\ Len(history) = 3
  /\ Len(results) = 3
  /\ Cardinality(disk) = 2

(***************************************************************************)
(* A failed file write                                                      *)
(***************************************************************************)
\* C17: in the server, when saveBinaryFile fails for an image chunk the error
\* leaves processAIResponse: the handler is in its catch clause at once, no
\* further chunk is pulled, no result is added and no file is written after
\* the failure, and the request is answered 500 with a body of error and
\* details only, without any of the results gathered before.
C17_WriteFailureIsFatal ==
  [][ /\ thrown' = WriteError =>
           /\ deployment = "server"
           /\ pc' \in {"catch", "done"}
      /\ thrown = WriteError =>
           /\ UNCHANGED <<normalizerVars, invocations>>
           /\ pc' = "done"
           /\ responses' =
                << Response(500, [error |-> IF endpoint = "generate"
                                            THEN "Failed to generate image"
                                            ELSE "Failed to manipulate image",
                                  details |-> "write failed"]) >> ]_vars

\* A second image failed to be written after a first one was saved.
C17_Witness ==
  /\ Answered
  /\ thrown = WriteError
  /\ disk # {}
  /\ responses[1].status = 500

(***************************************************************************)
(* The server and the functions side by side                                *)
(***************************************************************************)
\* Two result lists agree: same length, and position by position the same
\* type, the same mimeType and image index for images, the same content for
\* texts.
Agree(left, right) ==
  /\ Len(left) = Len(right)
  /\ \A i \in 1..Len(left) :
       /\ left[i].type = right[i].type
       /\ left[i].type = "image" =>
            /\ left[i].mimeType = right[i].mimeType
            /\ IndexOf(NameOf(left[i])) = IndexOf(NameOf(right[i]))
       /\ left[i].type = "text" => left[i].content = right[i].content

C16_NoSharedFileName == passes[1].written \cap passes[2].written = {}

(***************************************************************************)
(* The page                                                                 *)
(***************************************************************************)
\* C22: in the page, at most one request started by generateImage or
\* manipulateImage is in flight at any time, and the loading indicator is
\* hidden only when none is.
C22_OneRequestInFlight ==
  /\ client.inFlight <= 1
  /\ ~client.loading => client.inFlight = 0

====
